---------------------------- MODULE Spec2Model ----------------------------
(***************************************************************************)
(* The REST client of medperf (medperf/entities/server.py, class Server):  *)
(* one client process holding a session token, the server it talks to as   *)
(* the source of the responses, and the local filesystem the downloads     *)
(* write to.  Every public method of Server is one action; the response    *)
(* the method receives is chosen by the server.                            *)
(***************************************************************************)
EXTENDS Integers, Sequences, FiniteSets, TLC

(***************************************************************************)
(* Bounds of the model.                                                    *)
(***************************************************************************)
MaxUid == 1        \* benchmark and cube uids are 1..MaxUid
MaxId  == 2        \* ids the server assigns are 1..MaxId
MaxLen == 2        \* longest list of models the server answers with

Uids == 1..MaxUid
Ids  == 1..MaxId

(***************************************************************************)
(* The environment: what the server may answer and what callers pass.      *)
(***************************************************************************)
None == "None"                                  \* Python's None
Tokens == {"tokA", "tokB"}
StatusCodes == {200, 201, 404}
Credentials == {[username |-> "alice", password |-> "secret"]}
FileUrls == {<<"https://files/a">>, <<"https://files/b">>}
Contents == {<<>>, <<7>>}                       \* response bodies, as bytes
Names == {"demo", "other"}
RegDicts == {[name |-> "demo"]}

\* bodies the auth endpoint may answer with (whatever the status)
LoginBodies == [token : Tokens] \cup {[detail |-> "Unable to log in"]}
\* a model as the server lists it
Models == [id : Ids, name : {"model"}]
RECURSIVE SeqsUpTo(_, _)
SeqsUpTo(S, n) ==
    IF n = 0 THEN {<<>>}
    ELSE LET shorter == SeqsUpTo(S, n - 1)
         IN shorter \cup {Append(s, x) : s \in {t \in shorter : Len(t) = n - 1}, x \in S}
ModelLists == SeqsUpTo(Models, MaxLen)

VARIABLES
    token,      \* self.token
    granted,    \* the token of the latest 200 answer of the auth endpoint
    alive,      \* the client process is running
    dirs,       \* directories of the local filesystem (paths)
    files,      \* files of the local filesystem: path -> bytes
    call,       \* the latest call: what it sent, received, returned, reported
    effect      \* what the latest call did to the filesystem

vars == <<token, granted, alive, dirs, files, call, effect>>

server_url == "https://server"

(***************************************************************************)
(* The messages the methods hand to pretty_error, under the names the      *)
(* specification gives the failures.                                       *)
(***************************************************************************)
AuthenticationError   == <<"Unable to authentica user with provided credentials">>
NotAuthenticatedError == <<"Must be authenticated">>
BenchmarkNotFoundError == <<"the specified benchmark doesn't exist">>
RetrievalError        == <<"couldn't retrieve models for the specified benchmark">>
CubeNotFoundError     == <<"the specified cube doesn't exist">>
DownloadError(url)    == <<"There was a problem retrieving the specified file at ", url>>
DatasetUploadError    == <<"Could not upload the dataset">>
ResultsUploadError    == <<"Could not upload the results">>

AuthOps == {"get_benchmark", "get_benchmark_models", "get_cube_metadata",
            "upload_dataset", "upload_results"}
DownloadOps == {"get_cube", "get_cube_params", "get_cube_additional"}

(***************************************************************************)
(* A call as observed from outside: the requests it put on the network,    *)
(* the response it got (res = <<>> when it sent nothing), what it returned *)
(* (ret = <<>> when it returned nothing), the error it reported, and the    *)
(* token the session held when the call began.                             *)
(***************************************************************************)
Called(op, arg, req, res, ret, err) ==
    [op |-> op, arg |-> arg, req |-> req, res |-> res, ret |-> ret, err |-> err,
     held |-> token]

\* made: the directories the call created; replaced: the bytes that were at
\* the path it wrote (<<>> when it wrote no file or a new one)
Effect(made, replaced) == [made |-> made, replaced |-> replaced]
NoEffect == Effect({}, <<>>)

\* no call is under way: the constructor or the latest call has returned and
\* its caller has taken the result
Idle == [op |-> "idle", arg |-> <<>>, req |-> <<>>, res |-> <<>>, ret |-> <<>>,
         err |-> <<>>, held |-> None]

\* the single-threaded caller may start a call
ready == alive /\ call = Idle

\* pretty_error(msg): reports msg and ends the process; nothing after it runs
pretty_error(op, arg, req, res, msg) ==
    /\ call' = Called(op, arg, req, res, <<>>, msg)
    /\ alive' = FALSE

\* the method returns value to its caller
return(op, arg, req, res, value) ==
    /\ call' = Called(op, arg, req, res, <<value>>, <<>>)
    /\ alive' = alive

Request(method, url, headers, json) ==
    [method |-> method, url |-> url, headers |-> headers, json |-> json]

Init ==
    /\ token = None
    /\ granted = None
    /\ alive = TRUE
    /\ dirs = {<<>>}
    /\ files = <<>>
    /\ call = Idle
    /\ effect = NoEffect

(***************************************************************************)
(* What the server answers.  A success answer carries what the endpoint    *)
(* documents (a token, an id, a list of models); a failure answer carries  *)
(* any body.                                                               *)
(***************************************************************************)
LoginResponses ==
    {r \in [status_code : StatusCodes, json : LoginBodies] :
        r.status_code = 200 => "token" \in DOMAIN r.json}
BenchmarkResponses(uid) ==
    [status_code : StatusCodes, json : [id : {uid}, name : Names]]
ModelsResponses ==
    [status_code : StatusCodes, json : ModelLists]
CubeResponses(uid) ==
    [status_code : StatusCodes, json : [id : {uid}, url : FileUrls]]
UploadResponses ==
    [status_code : StatusCodes, json : [id : Ids]]
FileResponses ==
    [status_code : StatusCodes, content : Contents]

(***************************************************************************)
(* login                                                                   *)
(***************************************************************************)
\* login storing the token of the body before it looks at the status
login_store_first(cred) ==
    /\ ready
    /\ \E res \in LoginResponses :
        LET req == Request("POST", <<server_url, "auth-token">>, {}, <<cred>>)
            tok == IF "token" \in DOMAIN res.json THEN res.json["token"] ELSE token
        IN  /\ token' = tok
            /\ IF res.status_code # 200
               THEN /\ pretty_error("login", cred, <<req>>, <<res>>, AuthenticationError)
                    /\ UNCHANGED granted
               ELSE /\ granted' = res.json.token
                    /\ return("login", cred, <<req>>, <<res>>, None)
    /\ UNCHANGED <<dirs, files>>
    /\ effect' = NoEffect

\* login keeping the first token it was given
login_set_once(cred) ==
    /\ ready
    /\ \E res \in LoginResponses :
        LET req == Request("POST", <<server_url, "auth-token">>, {}, <<cred>>)
        IN  IF res.status_code # 200
            THEN /\ pretty_error("login", cred, <<req>>, <<res>>, AuthenticationError)
                 /\ UNCHANGED <<token, granted>>
            ELSE /\ token' = IF token = None THEN res.json["token"] ELSE token
                 /\ granted' = res.json.token
                 /\ return("login", cred, <<req>>, <<res>>, None)
    /\ UNCHANGED <<dirs, files>>
    /\ effect' = NoEffect

\* login dropping the session when the credentials are refused
login_clear_on_failure(cred) ==
    /\ ready
    /\ \E res \in LoginResponses :
        LET req == Request("POST", <<server_url, "auth-token">>, {}, <<cred>>)
        IN  IF res.status_code # 200
            THEN /\ pretty_error("login", cred, <<req>>, <<res>>, AuthenticationError)
                 /\ token' = None
                 /\ UNCHANGED granted
            ELSE /\ token' = res.json["token"]
                 /\ granted' = res.json.token
                 /\ return("login", cred, <<req>>, <<res>>, None)
    /\ UNCHANGED <<dirs, files>>
    /\ effect' = NoEffect

login(cred) ==
    /\ ready
    /\ \E res \in LoginResponses :
        LET req == Request("POST", <<server_url, "auth-token">>, {}, <<cred>>)
        IN  IF res.status_code # 200
            THEN /\ pretty_error("login", cred, <<req>>, <<res>>, AuthenticationError)
                 /\ UNCHANGED <<token, granted>>
            ELSE /\ token' = res.json["token"]
                 /\ granted' = res.json.token
                 /\ return("login", cred, <<req>>, <<res>>, None)
    /\ UNCHANGED <<dirs, files>>
    /\ effect' = NoEffect

(***************************************************************************)
(* __auth_req: the token check and the header of an authenticated request  *)
(***************************************************************************)
\* __auth_req without its check
not_authenticated_unchecked == FALSE

not_authenticated == token = None

auth_headers == {<<"Authorization", <<"Token", token>>>>}

\* __auth_get(url)
auth_get(url) == Request("GET", url, auth_headers, <<>>)

\* __auth_post(url, json=body)
auth_post(url, body) == Request("POST", url, auth_headers, <<body>>)

(***************************************************************************)
(* The authenticated operations                                            *)
(***************************************************************************)
\* get_benchmark taking every 2xx status for a success
get_benchmark_any_2xx(benchmark_uid) ==
    /\ ready
    /\ IF not_authenticated
       THEN pretty_error("get_benchmark", benchmark_uid, <<>>, <<>>, NotAuthenticatedError)
       ELSE \E res \in BenchmarkResponses(benchmark_uid) :
            LET req == auth_get(<<server_url, "benchmarks", benchmark_uid>>)
            IN  IF res.status_code \notin 200..299
                THEN pretty_error("get_benchmark", benchmark_uid, <<req>>, <<res>>,
                                  BenchmarkNotFoundError)
                ELSE return("get_benchmark", benchmark_uid, <<req>>, <<res>>, res.json)
    /\ UNCHANGED <<token, granted, dirs, files>>
    /\ effect' = NoEffect

get_benchmark(benchmark_uid) ==
    /\ ready
    /\ IF not_authenticated
       THEN pretty_error("get_benchmark", benchmark_uid, <<>>, <<>>, NotAuthenticatedError)
       ELSE \E res \in BenchmarkResponses(benchmark_uid) :
            LET req == auth_get(<<server_url, "benchmarks", benchmark_uid>>)
            IN  IF res.status_code # 200
                THEN pretty_error("get_benchmark", benchmark_uid, <<req>>, <<res>>,
                                  BenchmarkNotFoundError)
                ELSE return("get_benchmark", benchmark_uid, <<req>>, <<res>>, res.json)
    /\ UNCHANGED <<token, granted, dirs, files>>
    /\ effect' = NoEffect

\* the ids in the opposite order
model_uids_reversed(models) ==
    [i \in 1..Len(models) |-> models[Len(models) + 1 - i]["id"]]

\* [model["id"] for model in models]
model_uids(models) == [i \in 1..Len(models) |-> models[i]["id"]]

get_benchmark_models(benchmark_uid) ==
    /\ ready
    /\ IF not_authenticated
       THEN pretty_error("get_benchmark_models", benchmark_uid, <<>>, <<>>,
                         NotAuthenticatedError)
       ELSE \E res \in ModelsResponses :
            LET req == auth_get(<<server_url, "benchmarks", benchmark_uid, "models">>)
            IN  IF res.status_code # 200
                THEN pretty_error("get_benchmark_models", benchmark_uid, <<req>>, <<res>>,
                                  RetrievalError)
                ELSE return("get_benchmark_models", benchmark_uid, <<req>>, <<res>>,
                            model_uids(res.json))
    /\ UNCHANGED <<token, granted, dirs, files>>
    /\ effect' = NoEffect

get_cube_metadata(cube_uid) ==
    /\ ready
    /\ IF not_authenticated
       THEN pretty_error("get_cube_metadata", cube_uid, <<>>, <<>>, NotAuthenticatedError)
       ELSE \E res \in CubeResponses(cube_uid) :
            LET req == auth_get(<<server_url, "mlcubes", cube_uid, "">>)
            IN  IF res.status_code # 200
                THEN pretty_error("get_cube_metadata", cube_uid, <<req>>, <<res>>,
                                  CubeNotFoundError)
                ELSE return("get_cube_metadata", cube_uid, <<req>>, <<res>>, res.json)
    /\ UNCHANGED <<token, granted, dirs, files>>
    /\ effect' = NoEffect

\* the status check taking 200 as well
created_or_ok(res) == res.status_code \in {200, 201}

\* the status check of upload_dataset and upload_results
created(res) == res.status_code = 201

upload_dataset(reg_dict) ==
    /\ ready
    /\ IF not_authenticated
       THEN pretty_error("upload_dataset", reg_dict, <<>>, <<>>, NotAuthenticatedError)
       ELSE \E res \in UploadResponses :
            LET req == auth_post(<<server_url, "datasets", "">>, reg_dict)
            IN  IF ~created(res)
                THEN pretty_error("upload_dataset", reg_dict, <<req>>, <<res>>,
                                  DatasetUploadError)
                ELSE return("upload_dataset", reg_dict, <<req>>, <<res>>, res.json["id"])
    /\ UNCHANGED <<token, granted, dirs, files>>
    /\ effect' = NoEffect

upload_results(results_dict) ==
    /\ ready
    /\ IF not_authenticated
       THEN pretty_error("upload_results", results_dict, <<>>, <<>>, NotAuthenticatedError)
       ELSE \E res \in UploadResponses :
            LET req == auth_post(<<server_url, "results", "">>, results_dict)
            IN  IF ~created(res)
                THEN pretty_error("upload_results", results_dict, <<req>>, <<res>>,
                                  ResultsUploadError)
                ELSE return("upload_results", results_dict, <<req>>, <<res>>, res.json["id"])
    /\ UNCHANGED <<token, granted, dirs, files>>
    /\ effect' = NoEffect

(***************************************************************************)
(* The local filesystem.  A path is the sequence of its components.        *)
(***************************************************************************)
\* config[...]: the names of the layout
cube_filename == "mlcube.yaml"
workspace_path == <<"workspace">>
params_filename == "parameters.yaml"
additional_path == <<"additional_files">>
tarball_filename == "additional_files.tar.gz"

\* cube_path(cube_uid): the directory of the cube, keyed by its uid
cube_path(cube_uid) == <<"cubes", ToString(cube_uid)>>

\* os.path.join(a, b) for a relative b; joining "" names the same directory
path_join(a, b) == a \o b

\* os.path.isdir(path)
isdir(path) == path \in dirs

\* os.makedirs(path): the directory and every missing one above it
makedirs(path) == dirs \cup {SubSeq(path, 1, n) : n \in 0..Len(path)}

\* the file opened for appending
write_file_append(filepath, content) ==
    [p \in DOMAIN files \cup {filepath} |->
        IF p = filepath
        THEN (IF p \in DOMAIN files THEN files[p] ELSE <<>>) \o content
        ELSE files[p]]

\* open(filepath, "wb+").write(content): the file is truncated, then written
write_file(filepath, content) ==
    [p \in DOMAIN files \cup {filepath} |-> IF p = filepath THEN content ELSE files[p]]

\* the download sent as an authenticated request
file_request_with_token(url) == Request("GET", url, auth_headers, <<>>)

\* requests.get(url)
file_request(url) == Request("GET", url, {}, <<>>)

(***************************************************************************)
(* __get_cube_file and the three downloads built on it                     *)
(***************************************************************************)
\* the download writing the body before it looks at the status
get_cube_file_write_first(op, url, cube_uid, path, filename) ==
    /\ ready
    /\ \E res \in FileResponses :
        LET req == file_request(url)
            c_path == cube_path(cube_uid)
            dir == path_join(c_path, path)
            filepath == path_join(dir, <<filename>>)
        IN  /\ dirs' = IF ~isdir(dir) THEN makedirs(dir) ELSE dirs
            /\ files' = write_file(filepath, res.content)
            /\ effect' = Effect(dirs' \ dirs,
                                IF filepath \in DOMAIN files
                                THEN <<files[filepath]>> ELSE <<>>)
            /\ IF res.status_code # 200
               THEN pretty_error(op, <<url, cube_uid>>, <<req>>, <<res>>, DownloadError(url))
               ELSE return(op, <<url, cube_uid>>, <<req>>, <<res>>, filepath)
    /\ UNCHANGED <<token, granted>>

get_cube_file(op, url, cube_uid, path, filename) ==
    /\ ready
    /\ \E res \in FileResponses :
        LET req == file_request(url) IN
        IF res.status_code # 200
        THEN /\ pretty_error(op, <<url, cube_uid>>, <<req>>, <<res>>, DownloadError(url))
             /\ UNCHANGED <<dirs, files>>
             /\ effect' = NoEffect
        ELSE LET c_path == cube_path(cube_uid)
                 dir == path_join(c_path, path)
                 filepath == path_join(dir, <<filename>>)
             IN  /\ dirs' = IF ~isdir(dir) THEN makedirs(dir) ELSE dirs
                 /\ files' = write_file(filepath, res.content)
                 /\ effect' = Effect(dirs' \ dirs,
                                     IF filepath \in DOMAIN files
                                     THEN <<files[filepath]>> ELSE <<>>)
                 /\ return(op, <<url, cube_uid>>, <<req>>, <<res>>, filepath)
    /\ UNCHANGED <<token, granted>>

get_cube(url, cube_uid) ==
    get_cube_file("get_cube", url, cube_uid, <<>>, cube_filename)

get_cube_params(url, cube_uid) ==
    get_cube_file("get_cube_params", url, cube_uid, workspace_path, params_filename)

get_cube_additional(url, cube_uid) ==
    get_cube_file("get_cube_additional", url, cube_uid, additional_path, tarball_filename)

\* the caller takes the result of the call that returned
taken ==
    /\ alive
    /\ call # Idle
    /\ call' = Idle
    /\ effect' = NoEffect
    /\ UNCHANGED <<token, granted, alive, dirs, files>>

Next ==
    \/ \E cred \in Credentials : login(cred)
    \/ \E uid \in Uids : get_benchmark(uid)
    \/ \E uid \in Uids : get_benchmark_models(uid)
    \/ \E uid \in Uids : get_cube_metadata(uid)
    \/ \E reg \in RegDicts : upload_dataset(reg)
    \/ \E reg \in RegDicts : upload_results(reg)
    \/ \E url \in FileUrls, uid \in Uids : get_cube(url, uid)
    \/ \E url \in FileUrls, uid \in Uids : get_cube_params(url, uid)
    \/ \E url \in FileUrls, uid \in Uids : get_cube_additional(url, uid)
    \/ taken

Spec == Init /\ [][Next]_vars

(***************************************************************************)
(* The properties                                                          *)
(***************************************************************************)
UploadOps == {"upload_dataset", "upload_results"}
UploadError(op) == IF op = "upload_dataset" THEN DatasetUploadError ELSE ResultsUploadError

\* the directories above a path
Above(path) == {SubSeq(path, 1, n) : n \in 0..(Len(path) - 1)}

\* C1: while the token is absent, every operation that requires
\* authentication fails with NotAuthenticatedError, ends the process, returns
\* nothing and sends no request.
C1_NoRequestWithoutToken ==
    [][(token = None /\ call'.op \in AuthOps)
        => /\ call'.req = <<>>
           /\ call'.err = NotAuthenticatedError
           /\ call'.ret = <<>>
           /\ ~alive']_vars

C1_Witness ==
    /\ call.op \in AuthOps
    /\ token = None
    /\ call.err = NotAuthenticatedError
    /\ ~alive

\* C2: a login the auth endpoint answers with a non-success status fails with
\* AuthenticationError and ends the process, and a token that was absent is
\* still absent after it, whatever the body of the answer.
C2_FailedLoginLeavesUnauthenticated ==
    [][(call'.op = "login" /\ call'.res[1].status_code # 200)
        => /\ call'.err = AuthenticationError
           /\ call'.ret = <<>>
           /\ ~alive'
           /\ (token = None => token' = None)]_vars

C2_Witness ==
    /\ call.op = "login"
    /\ call.res[1].status_code # 200
    /\ "token" \in DOMAIN call.res[1].json
    /\ call.err = AuthenticationError
    /\ token = None

\* C3: every request an authenticated operation sends carries the header
\* Authorization: Token <token>, <token> being the token of the most recent
\* successful login.
C3_RequestsCarryLatestToken ==
    (call.op \in AuthOps /\ Len(call.req) > 0)
        => /\ granted # None
           /\ \A i \in 1..Len(call.req) :
                call.req[i].headers = {<<"Authorization", <<"Token", granted>>>>}

C3_Witness ==
    /\ call.op \in AuthOps
    /\ Len(call.req) = 1
    /\ call.req[1].headers = {<<"Authorization", <<"Token", "tokB">>>>}
    /\ granted = "tokB"

\* C4: a token that is set is never absent again, and the only step that
\* changes the token is a login that succeeded, which sets it to the token of
\* the answer.
C4_TokenSetOnlyByLogin ==
    [][/\ token # None => token' # None
       /\ token' # token
            => /\ call'.op = "login"
               /\ call'.res[1].status_code = 200
               /\ call'.err = <<>>
               /\ token' = call'.res[1].json.token]_vars

C4_Witness ==
    /\ token # None
    /\ call.op = "login"
    /\ call.res[1].status_code # 200
    /\ ~alive

\* C5: a download answered with a status other than 200 fails with
\* DownloadError naming the URL, returns nothing, and leaves directories and
\* files as they were.
C5_FailedDownloadWritesNothing ==
    [][(call'.op \in DownloadOps /\ call'.res[1].status_code # 200)
        => /\ call'.err = DownloadError(call'.arg[1])
           /\ call'.ret = <<>>
           /\ ~alive'
           /\ dirs' = dirs
           /\ files' = files]_vars

C5_Witness ==
    /\ call.op \in DownloadOps
    /\ call.res[1].status_code # 200
    /\ call.err = DownloadError(call.arg[1])
    /\ DOMAIN files = {}

\* C6: after a download answered with 200 the call has returned a path, every
\* directory above the path exists, and the file at the path holds exactly
\* the bytes of the answer, whatever the path held before.
C6_DownloadWritesBody ==
    (call.op \in DownloadOps /\ call.res[1].status_code = 200)
        => /\ call.err = <<>>
           /\ alive
           /\ Len(call.ret) = 1
           /\ Above(call.ret[1]) \subseteq dirs
           /\ call.ret[1] \in DOMAIN files
           /\ files[call.ret[1]] = call.res[1].content

C6_Witness ==
    /\ call.op \in DownloadOps
    /\ call.res[1].status_code = 200
    /\ Len(effect.replaced) = 1
    /\ effect.replaced[1] # call.res[1].content
    /\ files[call.ret[1]] = call.res[1].content

\* C7: an upload of an authenticated session returns the id of the body when
\* the status is 201, and on any other status fails with UploadError and
\* returns nothing.
C7_UploadReturnsIdOn201Only ==
    (call.op \in UploadOps /\ Len(call.req) = 1)
        => IF call.res[1].status_code = 201
           THEN /\ call.ret = <<call.res[1].json.id>>
                /\ call.err = <<>>
                /\ alive
           ELSE /\ call.ret = <<>>
                /\ call.err = UploadError(call.op)
                /\ ~alive

C7_Witness ==
    /\ call.op \in UploadOps
    /\ Len(call.req) = 1
    /\ call.res[1].status_code = 200
    /\ call.err = UploadError(call.op)
    /\ call.ret = <<>>

\* C8: get_benchmark_models answered with 200 returns the ids of the elements
\* of the answer: as many, in the same order, duplicates kept.
C8_ModelsInServerOrder ==
    (call.op = "get_benchmark_models" /\ Len(call.req) = 1
        /\ call.res[1].status_code = 200)
        => /\ Len(call.ret) = 1
           /\ Len(call.ret[1]) = Len(call.res[1].json)
           /\ \A i \in 1..Len(call.res[1].json) :
                call.ret[1][i] = call.res[1].json[i].id

C8_Witness ==
    /\ call.op = "get_benchmark_models"
    /\ Len(call.ret) = 1
    /\ call.ret[1] = <<2, 1>>

\* C9: get_benchmark of an authenticated session returns the body as it is
\* when the status is 200, and on any other status fails with NotFoundError
\* and returns nothing.
C9_BenchmarkUnmodifiedOr404 ==
    (call.op = "get_benchmark" /\ Len(call.req) = 1)
        => IF call.res[1].status_code = 200
           THEN /\ call.ret = <<call.res[1].json>>
                /\ call.err = <<>>
                /\ alive
           ELSE /\ call.ret = <<>>
                /\ call.err = BenchmarkNotFoundError
                /\ ~alive

C9_Witness ==
    /\ call.op = "get_benchmark"
    /\ Len(call.req) = 1
    /\ call.res[1].status_code = 201
    /\ call.err = BenchmarkNotFoundError

\* C10: the downloads are open to both session states: they can be called
\* whether or not the token is set, they send one request, to the URL they
\* were given, with no header of the session, they never fail with
\* NotAuthenticatedError, and they leave the token as it was.
C10_DownloadsUnauthenticated ==
    /\ ready => \A url \in FileUrls, uid \in Uids :
                  /\ ENABLED get_cube(url, uid)
                  /\ ENABLED get_cube_params(url, uid)
                  /\ ENABLED get_cube_additional(url, uid)
    /\ call.op \in DownloadOps
         => /\ Len(call.req) = 1
            /\ call.req[1].url = call.arg[1]
            /\ call.req[1].headers = {}
            /\ call.err # NotAuthenticatedError
            /\ token = call.held

C10_Witness ==
    /\ call.op \in DownloadOps
    /\ call.held = None
    /\ token = None
    /\ call.res[1].status_code = 200
    /\ call.req[1].headers = {}
    /\ alive

=============================================================================
